---- MODULE Spec2Model ----
(***************************************************************************)
(* Model of the planets word-generation service (backend/app.py): the      *)
(* model/tokenizer registry `model_state`, its load at startup and clear   *)
(* at shutdown (lifespan), the /generate facade over the sampler, and the  *)
(* favorites list `starred_words` with its add / remove / list handlers.   *)
(*                                                                         *)
(* Every request handler is an `async def` without an await in its body,   *)
(* so it runs to completion on the event loop: one action per handler.     *)
(***************************************************************************)
EXTENDS Integers, Sequences, FiniteSets, TLC

VARIABLES
    env,            \* the file system the process finds (fixed during a run)
    ARTEFACTS,      \* module global ARTEFACTS (app.py:23, reassigned at :85)
    phase,          \* "init" | "running" | "stopped" | "crashed"
    model_state,    \* module global dict model_state (app.py:24)
    starred_words,  \* module global list starred_words (app.py:113)
    load_log,       \* what load_model did at startup: steps attempted, error raised
    resp,           \* the response produced by the last step (NoResp if none)
    rejected,       \* some /generate request was answered 422 during this run
    tasks,          \* the request coroutines in flight, statement by statement
    holder          \* the coroutine the event loop is running (0: none)

vars == <<env, ARTEFACTS, phase, model_state, starred_words, load_log, resp, rejected,
          tasks, holder>>

\* the event loop's state, which the handler-level actions leave alone
loop == <<tasks, holder>>

----------------------------------------------------------------------------
(* Bounds of the model *)

\* largest explicit num_words a request carries
MaxCount == 2
\* seeds of the sampler's per-call randomness stream are 0..MaxSeed
MaxSeed == 1
\* request coroutines that can be in flight at once
MaxTasks == 2

(* Program constants *)

\* max_length=20 passed to sample_n
MAX_LENGTH == 20
\* Query(default=10, ge=1)
DEFAULT_NUM_WORDS == 10
MIN_NUM_WORDS == 1
\* Query(default=1.0, ge=0, le=10)
DEFAULT_TEMPERATURE == 1
MIN_TEMPERATURE == 0
MAX_TEMPERATURE == 10

\* reserved token ids of the tokenizer vocabulary; the first character id
START_TOKEN == 0
END_TOKEN == 1
FIRST_CHAR == 2

\* a query parameter the caller left out
Omitted == -1000

\* words a caller may star (membership is exact string equality)
Words == {"nebula", "Nebula", "quasar"}
\* vocabulary sizes of the artefacts: start, end and one or two characters
VocabSizes == {3, 4}
\* num_words values sent by callers
CountValues == {Omitted} \cup (0..MaxCount)
\* temperature values sent by callers
TempValues == {Omitted, -1, 0, 10, 11}
\* behaviours of the trained weights
ModelKinds == {"eos", "stuck", "free", "faulty"}

None == [type |-> "None", vocab |-> 0, kind |-> "-"]
EmptyDict == [k \in {} |-> None]
NoError == [type |-> "", msg |-> ""]
NoResp == [endpoint |-> "", status |-> 0, n |-> Omitted, t |-> Omitted, word |-> "",
           hit |-> FALSE,
           words |-> <<>>, list |-> <<>>, detail |-> "", calls |-> <<>>, steps |-> 0]

----------------------------------------------------------------------------
(* The artefact files *)

TokenizerFiles ==
    {[state |-> s, vocab |-> 0] : s \in {"missing", "corrupt"}}
        \cup {[state |-> "ok", vocab |-> v] : v \in VocabSizes}
ConfigFiles ==
    {[state |-> s, vocab |-> 0] : s \in {"missing", "badjson", "scalar", "nokey", "badarch"}}
        \cup {[state |-> "ok", vocab |-> v] : v \in VocabSizes}
WeightFiles ==
    {[state |-> s, vocab |-> 0, kind |-> "-"] : s \in {"missing", "corrupt"}}
        \cup {[state |-> "ok", vocab |-> v, kind |-> k] : v \in VocabSizes, k \in ModelKinds}
Environments ==
    [frontend : {"missing", "ok"}, artefacts : {"here", "parent", "none"},
     tokenizer_json : TokenizerFiles, config_json : ConfigFiles, model_pth : WeightFiles]

\* One environment per course load_model can take: a file load_model never
\* gets to read (because an earlier step fails) is taken as missing.
Unread(e) ==
    /\ e.tokenizer_json.state # "ok" => e.config_json.state = "missing"
    /\ e.config_json.state # "ok" => e.model_pth.state = "missing"
    /\ e.artefacts = "none" => e.tokenizer_json.state = "missing"
    /\ e.frontend = "missing" => e.artefacts = "none"
ServiceEnvironments == {e \in Environments : Unread(e)}

----------------------------------------------------------------------------
(* load_model *)

Raise(type, msg, steps) ==
    [ok |-> FALSE, value |-> None, error |-> [type |-> type, msg |-> msg], steps |-> steps]

Done(value, steps) ==
    [ok |-> TRUE, value |-> value, error |-> NoError, steps |-> steps]

\* 1. Load Tokenizer
LoadTokenizer(e, steps) ==
    LET s1 == Append(steps, "tokenizer_exists")
        s2 == Append(s1, "tokenizer_load")
    IN  IF e.tokenizer_json.state = "missing"
        THEN Raise("FileNotFoundError", "Tokenizer file not found", s1)
        ELSE IF e.tokenizer_json.state = "corrupt"
        THEN Raise("RuntimeError", "Failed to load tokenizer", s2)
        ELSE Done([type |-> "tokenizer", vocab |-> e.tokenizer_json.vocab, kind |-> "-"], s2)

\* 2. Load Configuration (the value is the "model" sub-record, read in step 3)
LoadConfiguration(e, steps) ==
    LET s1 == Append(steps, "config_exists")
        s2 == Append(s1, "config_parse")
    IN  IF e.config_json.state = "missing"
        THEN Raise("FileNotFoundError", "Config file not found", s1)
        ELSE IF e.config_json.state = "badjson"
        THEN Raise("ValueError", "Invalid JSON in config file", s2)
        ELSE Done(None, s2)

\* a step 3 without the weights-file existence test: torch.load fails instead
LoadModel_no_exists_check(e, steps) ==
    LET s1 == Append(steps, "config_check")
        s2 == Append(s1, "model_build")
        s4 == Append(s2, "weights_load")
    IN  IF e.config_json.state = "scalar"
        THEN Raise("TypeError", "argument is not iterable", s1)
        ELSE IF e.config_json.state = "nokey"
        THEN Raise("ValueError", "Config file missing 'model' key", s1)
        ELSE IF e.config_json.state = "badarch"
        THEN Raise("RuntimeError", "Failed to initialize model architecture", s2)
        ELSE IF e.model_pth.state # "ok" \/ e.model_pth.vocab # e.config_json.vocab
        THEN Raise("RuntimeError", "Failed to load model weights", s4)
        ELSE Done([type |-> "model", vocab |-> e.config_json.vocab, kind |-> e.model_pth.kind], s4)

\* 3. Load Model
LoadModel(e, steps) ==
    LET s1 == Append(steps, "config_check")
        s2 == Append(s1, "model_build")
        s3 == Append(s2, "weights_exists")
        s4 == Append(s3, "weights_load")
    IN  IF e.config_json.state = "scalar"
        THEN Raise("TypeError", "argument is not iterable", s1)
        ELSE IF e.config_json.state = "nokey"
        THEN Raise("ValueError", "Config file missing 'model' key", s1)
        ELSE IF e.config_json.state = "badarch"
        THEN Raise("RuntimeError", "Failed to initialize model architecture", s2)
        ELSE IF e.model_pth.state = "missing"
        THEN Raise("FileNotFoundError", "Model weights not found", s3)
        ELSE IF e.model_pth.state = "corrupt" \/ e.model_pth.vocab # e.config_json.vocab
        THEN Raise("RuntimeError", "Failed to load model weights", s4)
        ELSE Done([type |-> "model", vocab |-> e.config_json.vocab, kind |-> e.model_pth.kind], s4)

LoadResult(t, m) ==
    [ok |-> m.ok, model |-> m.value, tokenizer |-> IF m.ok THEN t.value ELSE None,
     error |-> m.error, steps |-> m.steps]

\* a load_model that reads the configuration before the tokenizer
load_model_config_first(e) ==
    LET c == LoadConfiguration(e, <<>>)
        t == LoadTokenizer(e, c.steps)
        m == LoadModel(e, t.steps)
    IN  IF ~c.ok THEN LoadResult(c, c)
        ELSE IF ~t.ok THEN LoadResult(t, t)
        ELSE LoadResult(t, m)

load_model(e) ==
    LET t == LoadTokenizer(e, <<>>)
        c == LoadConfiguration(e, t.steps)
        m == LoadModel(e, c.steps)
    IN  IF ~t.ok THEN LoadResult(t, t)
        ELSE IF ~c.ok THEN LoadResult(t, c)
        ELSE LoadResult(t, m)

----------------------------------------------------------------------------
(* lifespan: startup up to the yield, shutdown after it *)

Loaded(ms) == "model" \in DOMAIN ms /\ "tokenizer" \in DOMAIN ms

\* a publication that stores the model and forgets the tokenizer
Publish_model_only(model, tokenizer) ==
    [k \in {"model"} |-> model]

Publish(model, tokenizer) ==
    [k \in {"model", "tokenizer"} |-> IF k = "model" THEN model ELSE tokenizer]

\* a startup that stores the tokenizer as soon as it is read, before the
\* rest of the load has succeeded
lifespan_startup_partial ==
    /\ phase = "init"
    /\ IF env.frontend = "missing"
       THEN /\ phase' = "crashed"
            /\ UNCHANGED <<ARTEFACTS, model_state, load_log>>
       ELSE IF env.artefacts = "none"
       THEN /\ phase' = "crashed"
            /\ ARTEFACTS' = "../artefacts"
            /\ UNCHANGED <<model_state, load_log>>
       ELSE /\ ARTEFACTS' = IF env.artefacts = "here" THEN "artefacts" ELSE "../artefacts"
            /\ LET r == load_model(env)
                   t == LoadTokenizer(env, <<>>)
               IN  /\ model_state' =
                        IF r.ok THEN Publish(r.model, r.tokenizer)
                        ELSE IF t.ok THEN [k \in {"tokenizer"} |-> t.value]
                        ELSE model_state
                   /\ load_log' = [ran |-> TRUE, ok |-> r.ok, error |-> r.error, steps |-> r.steps]
            /\ phase' = "running"
    /\ resp' = NoResp
    /\ UNCHANGED loop
    /\ UNCHANGED <<env, starred_words, rejected>>

lifespan_startup ==
    /\ phase = "init"
    /\ IF env.frontend = "missing"
       THEN /\ phase' = "crashed"
            /\ UNCHANGED <<ARTEFACTS, model_state, load_log>>
       ELSE IF env.artefacts = "none"
       THEN /\ phase' = "crashed"
            /\ ARTEFACTS' = "../artefacts"
            /\ UNCHANGED <<model_state, load_log>>
       ELSE /\ ARTEFACTS' = IF env.artefacts = "here" THEN "artefacts" ELSE "../artefacts"
            /\ LET r == load_model(env)
               IN  /\ model_state' = IF r.ok THEN Publish(r.model, r.tokenizer) ELSE model_state
                   /\ load_log' = [ran |-> TRUE, ok |-> r.ok, error |-> r.error, steps |-> r.steps]
            /\ phase' = "running"
    /\ resp' = NoResp
    /\ UNCHANGED loop
    /\ UNCHANGED <<env, starred_words, rejected>>

\* a shutdown that leaves the registry as it is
lifespan_shutdown_no_clear ==
    /\ phase = "running"
    /\ phase' = "stopped"
    /\ resp' = NoResp
    /\ UNCHANGED loop
    /\ UNCHANGED <<env, ARTEFACTS, model_state, starred_words, load_log, rejected>>

\* a shutdown that also empties the favorites list
lifespan_shutdown_clear_all ==
    /\ phase = "running"
    /\ model_state' = EmptyDict
    /\ starred_words' = <<>>
    /\ phase' = "stopped"
    /\ resp' = NoResp
    /\ UNCHANGED loop
    /\ UNCHANGED <<env, ARTEFACTS, load_log, rejected>>

lifespan_shutdown ==
    /\ phase = "running"
    /\ model_state' = EmptyDict
    /\ phase' = "stopped"
    /\ resp' = NoResp
    /\ UNCHANGED loop
    /\ UNCHANGED <<env, ARTEFACTS, starred_words, load_log, rejected>>

----------------------------------------------------------------------------
(* Tokenizer and sequence model, as the sampler uses them *)

\* decode one token id: id 2 is 'a', id 3 is 'b'
Chars == <<"a", "b">>
CanDecode(tokenizer, id) == id >= FIRST_CHAR /\ id < tokenizer.vocab
DecodeId(id) == Chars[id - FIRST_CHAR + 1]
decode(ids) == [i \in 1..Len(ids) |-> DecodeId(ids[i])]

\* a logit of NegInf is probability zero at every temperature
NegInf == -1

\* model.step(state, input_id): the logits over the model's vocabulary and
\* the next hidden state; the hidden state h counts the tokens consumed
step(model, h, input_id) ==
    [logits |->
        [id \in 0..(model.vocab - 1) |->
            CASE model.kind = "eos"   -> IF id = END_TOKEN THEN 1 ELSE NegInf
              [] model.kind = "stuck" -> IF id = FIRST_CHAR THEN 1 ELSE NegInf
              [] OTHER ->
                    IF id = START_TOKEN THEN NegInf
                    ELSE IF id = FIRST_CHAR THEN (IF h < 2 THEN 3 ELSE 1)
                    ELSE IF id = END_TOKEN THEN 2
                    ELSE 1],
     next_state |-> h + 1]

Max(S) == CHOOSE x \in S : \A y \in S : y <= x
Min(S) == CHOOSE x \in S : \A y \in S : x <= y

argmax(logits) == Min({id \in DOMAIN logits : logits[id] = Max({logits[j] : j \in DOMAIN logits})})

Support(logits) == {id \in DOMAIN logits : logits[id] # NegInf}

\* the k-th smallest element of a set of numbers, k from 0
RECURSIVE Nth(_, _)
Nth(S, k) == IF k = 0 THEN Min(S) ELSE Nth(S \ {Min(S)}, k - 1)

\* the per-call randomness stream
NextRandom(x) == (5 * x + 3) % 16

\* one draw from the temperature-scaled distribution
draw(logits, temperature, rng) ==
    IF temperature = 0 THEN argmax(logits)
    ELSE Nth(Support(logits), rng % Cardinality(Support(logits)))

\* the per-word loop: until the end token is drawn or max_length ids are produced
RECURSIVE sample_word(_, _, _, _, _, _, _)
sample_word(model, temperature, max_length, h, last_id, produced, rng) ==
    IF Len(produced) = max_length THEN [ids |-> produced, steps |-> h]
    ELSE LET out == step(model, h, last_id)
             id == draw(out.logits, temperature, rng)
         IN  IF id = END_TOKEN THEN [ids |-> produced, steps |-> out.next_state]
             ELSE sample_word(model, temperature, max_length, out.next_state, id,
                              Append(produced, id), NextRandom(rng))

SamplerRaise(type, msg, steps) ==
    [ok |-> FALSE, words |-> <<>>, error |-> [type |-> type, msg |-> msg], steps |-> steps]

RECURSIVE sample_words(_, _, _, _, _, _, _, _)
sample_words(i, n, model, tokenizer, max_length, temperature, rng, acc) ==
    IF i > n THEN acc
    ELSE LET w == sample_word(model, temperature, max_length, 0, START_TOKEN, <<>>, rng)
         IN  IF \E k \in 1..Len(w.ids) : ~CanDecode(tokenizer, w.ids[k])
             THEN SamplerRaise("DecodingError", "token id outside the vocabulary",
                               acc.steps + w.steps)
             ELSE sample_words(i + 1, n, model, tokenizer, max_length, temperature,
                               NextRandom(rng + 7),
                               [acc EXCEPT !.words = Append(@, decode(w.ids)),
                                           !.steps = @ + w.steps])

sample_n_run(n, model, tokenizer, max_length, temperature, seed) ==
    IF temperature < 0
    THEN SamplerRaise("ValueError", "temperature must be non-negative", 0)
    ELSE IF model.kind = "faulty"
    THEN SamplerRaise("RuntimeError", "model step failed", 0)
    ELSE sample_words(1, n, model, tokenizer, max_length, temperature, seed,
                      [ok |-> TRUE, words |-> <<>>, error |-> NoError, steps |-> 0])

\* The calls the facade can make, evaluated once: sample_n is a function of
\* its arguments and its seed.
Models == {[type |-> "model", vocab |-> v, kind |-> k] : v \in VocabSizes, k \in ModelKinds}
Tokenizers == {[type |-> "tokenizer", vocab |-> v, kind |-> "-"] : v \in VocabSizes}
SamplerCalls ==
    ((MIN_NUM_WORDS..MaxCount) \cup {DEFAULT_NUM_WORDS}) \X Models \X Tokenizers \X {MAX_LENGTH}
        \X ((TempValues \cup {DEFAULT_TEMPERATURE}) \cap (MIN_TEMPERATURE..MAX_TEMPERATURE))
        \X (0..MaxSeed)
sample_n_table ==
    [c \in SamplerCalls |-> sample_n_run(c[1], c[2], c[3], c[4], c[5], c[6])] @@ <<>>

sample_n(n, model, tokenizer, max_length, temperature, seed) ==
    LET c == <<n, model, tokenizer, max_length, temperature, seed>>
    IN  IF c \in SamplerCalls THEN sample_n_table[c]
        ELSE sample_n_run(n, model, tokenizer, max_length, temperature, seed)

----------------------------------------------------------------------------
(* The generation facade *)

Get(ms, k) == IF k \in DOMAIN ms THEN ms[k] ELSE None
Truthy(x) == x # None

Call(n, temperature, max_length) == [n |-> n, temperature |-> temperature, max_length |-> max_length]

\* a facade that takes temperature 0 for "not given" (temperature or 1.0)
new_words_temp_falsy(ms, n, temperature, seed) ==
    LET t == IF temperature = 0 THEN DEFAULT_TEMPERATURE ELSE temperature
        output_words == sample_n(n, Get(ms, "model"), Get(ms, "tokenizer"), MAX_LENGTH, t, seed)
    IN  [ok |-> output_words.ok, words |-> output_words.words, error |-> output_words.error,
         calls |-> <<Call(n, t, MAX_LENGTH)>>, steps |-> output_words.steps]

\* a facade that asks the sampler for longer words
new_words_longer(ms, n, temperature, seed) ==
    LET output_words == sample_n(n, Get(ms, "model"), Get(ms, "tokenizer"), MAX_LENGTH + 1,
                                 temperature, seed)
    IN  [ok |-> output_words.ok, words |-> output_words.words, error |-> output_words.error,
         calls |-> <<Call(n, temperature, MAX_LENGTH + 1)>>, steps |-> output_words.steps]

new_words(ms, n, temperature, seed) ==
    LET model == Get(ms, "model")
        tokenizer == Get(ms, "tokenizer")
    IN  IF ~Truthy(model) \/ ~Truthy(tokenizer)
        THEN [ok |-> FALSE, words |-> <<>>,
              error |-> [type |-> "RuntimeError", msg |-> "Model or Tokenizer not initialized"],
              calls |-> <<>>, steps |-> 0]
        ELSE LET output_words == sample_n(n, model, tokenizer, MAX_LENGTH, temperature, seed)
             IN  [ok |-> output_words.ok, words |-> output_words.words,
                  error |-> output_words.error,
                  calls |-> <<Call(n, temperature, MAX_LENGTH)>>,
                  steps |-> output_words.steps]

\* the Query(...) constraints FastAPI checks before the handler body runs
ValidQuery_no_upper_bound(num_words, temperature) ==
    /\ num_words >= MIN_NUM_WORDS
    /\ temperature >= MIN_TEMPERATURE

ValidQuery(num_words, temperature) ==
    /\ num_words >= MIN_NUM_WORDS
    /\ temperature >= MIN_TEMPERATURE
    /\ temperature <= MAX_TEMPERATURE

\* a handler that always asks for the default number of words
generate_words_fixed_count(ms, q_n, q_t, seed) ==
    LET num_words == IF q_n = Omitted THEN DEFAULT_NUM_WORDS ELSE q_n
        temperature == IF q_t = Omitted THEN DEFAULT_TEMPERATURE ELSE q_t
        base == [NoResp EXCEPT !.endpoint = "GET /generate", !.n = q_n, !.t = q_t]
    IN  IF ~ValidQuery(num_words, temperature)
        THEN [base EXCEPT !.status = 422, !.detail = "validation error"]
        ELSE IF "model" \notin DOMAIN ms \/ "tokenizer" \notin DOMAIN ms
        THEN [base EXCEPT !.status = 503, !.detail = "Model not loaded"]
        ELSE LET r == new_words(ms, DEFAULT_NUM_WORDS, temperature, seed)
             IN  IF r.ok
                 THEN [base EXCEPT !.status = 200, !.words = r.words, !.calls = r.calls,
                                   !.steps = r.steps]
                 ELSE [base EXCEPT !.status = 500, !.detail = r.error.msg, !.calls = r.calls,
                                   !.steps = r.steps]

\* a handler that answers an empty list when the sampler raises
generate_words_swallow(ms, q_n, q_t, seed) ==
    LET num_words == IF q_n = Omitted THEN DEFAULT_NUM_WORDS ELSE q_n
        temperature == IF q_t = Omitted THEN DEFAULT_TEMPERATURE ELSE q_t
        base == [NoResp EXCEPT !.endpoint = "GET /generate", !.n = q_n, !.t = q_t]
    IN  IF ~ValidQuery(num_words, temperature)
        THEN [base EXCEPT !.status = 422, !.detail = "validation error"]
        ELSE IF "model" \notin DOMAIN ms \/ "tokenizer" \notin DOMAIN ms
        THEN [base EXCEPT !.status = 503, !.detail = "Model not loaded"]
        ELSE LET r == new_words(ms, num_words, temperature, seed)
             IN  [base EXCEPT !.status = 200, !.words = r.words, !.calls = r.calls,
                              !.steps = r.steps]

\* a handler without the readiness check
generate_words_unchecked(ms, q_n, q_t, seed) ==
    LET num_words == IF q_n = Omitted THEN DEFAULT_NUM_WORDS ELSE q_n
        temperature == IF q_t = Omitted THEN DEFAULT_TEMPERATURE ELSE q_t
        base == [NoResp EXCEPT !.endpoint = "GET /generate", !.n = q_n, !.t = q_t]
    IN  IF ~ValidQuery(num_words, temperature)
        THEN [base EXCEPT !.status = 422, !.detail = "validation error"]
        ELSE LET r == new_words(ms, num_words, temperature, seed)
             IN  IF r.ok
                 THEN [base EXCEPT !.status = 200, !.words = r.words, !.calls = r.calls,
                                   !.steps = r.steps]
                 ELSE [base EXCEPT !.status = 500, !.detail = r.error.msg, !.calls = r.calls,
                                   !.steps = r.steps]

generate_words(ms, q_n, q_t, seed) ==
    LET num_words == IF q_n = Omitted THEN DEFAULT_NUM_WORDS ELSE q_n
        temperature == IF q_t = Omitted THEN DEFAULT_TEMPERATURE ELSE q_t
        base == [NoResp EXCEPT !.endpoint = "GET /generate", !.n = q_n, !.t = q_t]
    IN  IF ~ValidQuery(num_words, temperature)
        THEN [base EXCEPT !.status = 422, !.detail = "validation error"]
        ELSE IF "model" \notin DOMAIN ms \/ "tokenizer" \notin DOMAIN ms
        THEN [base EXCEPT !.status = 503, !.detail = "Model not loaded"]
        ELSE LET r == new_words(ms, num_words, temperature, seed)
             IN  IF r.ok
                 THEN [base EXCEPT !.status = 200, !.words = r.words, !.calls = r.calls,
                                   !.steps = r.steps]
                 ELSE [base EXCEPT !.status = 500, !.detail = r.error.msg, !.calls = r.calls,
                                   !.steps = r.steps]

\* a request step that drops the registry when generation fails
GenerateRequest_resets ==
    /\ phase = "running"
    /\ \E q_n \in CountValues, q_t \in TempValues, seed \in 0..MaxSeed :
          resp' = generate_words(model_state, q_n, q_t, seed)
    /\ model_state' = IF resp'.status = 500 THEN EmptyDict ELSE model_state
    /\ rejected' = (rejected \/ resp'.status = 422)
    /\ UNCHANGED loop
    /\ UNCHANGED <<env, ARTEFACTS, phase, starred_words, load_log>>

GenerateRequest ==
    /\ phase = "running"
    /\ \E q_n \in CountValues, q_t \in TempValues, seed \in 0..MaxSeed :
          resp' = generate_words(model_state, q_n, q_t, seed)
    /\ rejected' = (rejected \/ resp'.status = 422)
    /\ UNCHANGED loop
    /\ UNCHANGED <<env, ARTEFACTS, phase, model_state, starred_words, load_log>>

----------------------------------------------------------------------------
(* The favorites list *)

Range(s) == {s[i] : i \in 1..Len(s)}

\* list.remove(x): delete the first occurrence
RemoveFirst(s, w) ==
    LET i == Min({j \in 1..Len(s) : s[j] = w})
    IN  SubSeq(s, 1, i - 1) \o SubSeq(s, i + 1, Len(s))

get_starred_words(list) == list

\* an add without the membership test
add_starred_word_unchecked(list, w) == Append(list, w)

\* an add that inserts at the front
add_starred_word_front(list, w) ==
    IF w \notin Range(list) THEN <<w>> \o list ELSE list

add_starred_word(list, w) ==
    IF w \notin Range(list) THEN Append(list, w) ELSE list

\* a remove that drops the last entry (list.pop()) instead of the word
remove_starred_word_pop(list, w) ==
    IF w \in Range(list) THEN SubSeq(list, 1, Len(list) - 1) ELSE list

remove_starred_word(list, w) ==
    IF w \in Range(list) THEN RemoveFirst(list, w) ELSE list

GetStarred ==
    /\ phase = "running"
    /\ resp' = [NoResp EXCEPT !.endpoint = "GET /starred", !.status = 200,
                              !.list = get_starred_words(starred_words)]
    /\ UNCHANGED loop
    /\ UNCHANGED <<env, ARTEFACTS, phase, model_state, starred_words, load_log, rejected>>

AddStarred ==
    /\ phase = "running"
    /\ \E w \in Words :
          /\ starred_words' = add_starred_word(starred_words, w)
          /\ resp' = [NoResp EXCEPT !.endpoint = "POST /starred", !.status = 200,
                                    !.word = w,
                                    !.hit = (w \in Range(starred_words)),
                                    !.list = starred_words']
    /\ UNCHANGED loop
    /\ UNCHANGED <<env, ARTEFACTS, phase, model_state, load_log, rejected>>

RemoveStarred ==
    /\ phase = "running"
    /\ \E w \in Words :
          /\ starred_words' = remove_starred_word(starred_words, w)
          /\ resp' = [NoResp EXCEPT !.endpoint = "POST /unstarred", !.status = 200,
                                    !.word = w,
                                    !.hit = (w \in Range(starred_words)),
                                    !.list = starred_words']
    /\ UNCHANGED loop
    /\ UNCHANGED <<env, ARTEFACTS, phase, model_state, load_log, rejected>>

----------------------------------------------------------------------------
(* health and index *)

health ==
    /\ phase = "running"
    /\ resp' = [NoResp EXCEPT !.endpoint = "GET /health", !.status = 200, !.detail = "ok"]
    /\ UNCHANGED loop
    /\ UNCHANGED <<env, ARTEFACTS, phase, model_state, starred_words, load_log, rejected>>

read_index ==
    /\ phase = "running"
    /\ resp' = [NoResp EXCEPT !.endpoint = "GET /", !.status = 200, !.detail = "static/index.html"]
    /\ UNCHANGED loop
    /\ UNCHANGED <<env, ARTEFACTS, phase, model_state, starred_words, load_log, rejected>>

----------------------------------------------------------------------------
(* The same code statement by statement, on the event loop.                *)
(* A coroutine that has started runs until it awaits or returns; lifespan  *)
(* awaits only at its yield, and no handler awaits at all.                 *)

TaskIds == 1..MaxTasks
IdleTask == [pc |-> "idle", n |-> Omitted, t |-> Omitted, seen |-> EmptyDict, word |-> ""]

\* query parameters of the requests followed statement by statement
TaskCounts == {Omitted, 0, 1}
TaskTemps == {Omitted, 0}
\* words of the favorites requests followed statement by statement
TaskWords == {"nebula", "quasar"}

\* a handler that gives up the event loop between its statements
Hold_yields(t) == 0

\* after a statement of coroutine t that is not an await, t keeps the loop
Hold(t) == t

\* lifespan up to load_model()
ConcLoad ==
    /\ phase = "init" /\ holder = 0
    /\ IF env.frontend = "missing"
       THEN /\ phase' = "crashed"
            /\ UNCHANGED <<ARTEFACTS, load_log>>
       ELSE IF env.artefacts = "none"
       THEN /\ phase' = "crashed"
            /\ ARTEFACTS' = "../artefacts"
            /\ UNCHANGED load_log
       ELSE /\ ARTEFACTS' = IF env.artefacts = "here" THEN "artefacts" ELSE "../artefacts"
            /\ LET r == load_model(env)
               IN  /\ load_log' = [ran |-> TRUE, ok |-> r.ok, error |-> r.error, steps |-> r.steps]
                   /\ phase' = IF r.ok THEN "loaded" ELSE "running"
    /\ UNCHANGED <<env, model_state, starred_words, resp, rejected, tasks, holder>>

\* model_state["model"] = model
ConcPublishModel ==
    /\ phase = "loaded" /\ holder = 0
    /\ model_state' = [k \in {"model"} |-> load_model(env).model]
    /\ phase' = "model_published"
    /\ UNCHANGED <<env, ARTEFACTS, starred_words, load_log, resp, rejected, tasks, holder>>

\* model_state["tokenizer"] = tokenizer, then on to the yield
ConcPublishTokenizer ==
    /\ phase = "model_published" /\ holder = 0
    /\ model_state' = Publish(model_state["model"], load_model(env).tokenizer)
    /\ phase' = "running"
    /\ UNCHANGED <<env, ARTEFACTS, starred_words, load_log, resp, rejected, tasks, holder>>

\* model_state.clear(); shutdown is not assumed to wait for requests in flight
ConcClear ==
    /\ phase = "running" /\ holder = 0
    /\ model_state' = EmptyDict
    /\ phase' = "stopped"
    /\ UNCHANGED <<env, ARTEFACTS, starred_words, load_log, resp, rejected, tasks, holder>>

\* generate_words up to the readiness check
GenCheck(t) ==
    /\ phase = "running" /\ holder \in {0, t}
    /\ tasks[t].pc = "idle"
    /\ \E q_n \in TaskCounts, q_t \in TaskTemps :
          LET base == [NoResp EXCEPT !.endpoint = "GET /generate", !.n = q_n, !.t = q_t]
              num_words == IF q_n = Omitted THEN DEFAULT_NUM_WORDS ELSE q_n
              temperature == IF q_t = Omitted THEN DEFAULT_TEMPERATURE ELSE q_t
          IN  IF ~ValidQuery(num_words, temperature)
              THEN /\ resp' = [base EXCEPT !.status = 422, !.detail = "validation error"]
                   /\ rejected' = TRUE
                   /\ UNCHANGED <<tasks, holder>>
              ELSE IF "model" \notin DOMAIN model_state \/ "tokenizer" \notin DOMAIN model_state
              THEN /\ resp' = [base EXCEPT !.status = 503, !.detail = "Model not loaded"]
                   /\ UNCHANGED <<rejected, tasks, holder>>
              ELSE /\ tasks' = [tasks EXCEPT ![t] = [IdleTask EXCEPT !.pc = "fetch",
                                                       !.n = num_words, !.t = temperature,
                                                       !.seen = model_state]]
                   /\ holder' = Hold(t)
                   /\ UNCHANGED <<resp, rejected>>
    /\ UNCHANGED <<env, ARTEFACTS, phase, model_state, starred_words, load_log>>

\* words = new_words(num_words, temperature) and the response
GenFetch(t) ==
    /\ holder \in {0, t}
    /\ phase \notin {"loaded", "model_published"}
    /\ tasks[t].pc = "fetch"
    /\ \E seed \in 0..MaxSeed :
          LET r == new_words(model_state, tasks[t].n, tasks[t].t, seed)
              base == [NoResp EXCEPT !.endpoint = "GET /generate",
                                     !.n = tasks[t].n, !.t = tasks[t].t]
          IN  resp' = IF r.ok
                      THEN [base EXCEPT !.status = 200, !.words = r.words, !.calls = r.calls,
                                        !.steps = r.steps]
                      ELSE [base EXCEPT !.status = 500, !.detail = r.error.msg,
                                        !.calls = r.calls, !.steps = r.steps]
    /\ tasks' = [tasks EXCEPT ![t] = IdleTask]
    /\ holder' = 0
    /\ UNCHANGED <<env, ARTEFACTS, phase, model_state, starred_words, load_log, rejected>>

\* add_starred_word: the membership test
AddCheck(t) ==
    /\ phase = "running" /\ holder \in {0, t}
    /\ tasks[t].pc = "idle"
    /\ \E w \in TaskWords :
          IF w \notin Range(starred_words)
          THEN /\ tasks' = [tasks EXCEPT ![t] = [IdleTask EXCEPT !.pc = "append", !.word = w]]
               /\ holder' = Hold(t)
               /\ UNCHANGED resp
          ELSE /\ resp' = [NoResp EXCEPT !.endpoint = "POST /starred", !.status = 200,
                                         !.word = w, !.hit = TRUE, !.list = starred_words]
               /\ UNCHANGED <<tasks, holder>>
    /\ UNCHANGED <<env, ARTEFACTS, phase, model_state, starred_words, load_log, rejected>>

\* add_starred_word: starred_words.append(word.word) and the return
AddAppend(t) ==
    /\ holder \in {0, t}
    /\ phase \notin {"loaded", "model_published"}
    /\ tasks[t].pc = "append"
    /\ starred_words' = Append(starred_words, tasks[t].word)
    /\ resp' = [NoResp EXCEPT !.endpoint = "POST /starred", !.status = 200,
                              !.word = tasks[t].word, !.hit = FALSE, !.list = starred_words']
    /\ tasks' = [tasks EXCEPT ![t] = IdleTask]
    /\ holder' = 0
    /\ UNCHANGED <<env, ARTEFACTS, phase, model_state, load_log, rejected>>

\* remove_starred_word: the membership test
RemoveCheck(t) ==
    /\ phase = "running" /\ holder \in {0, t}
    /\ tasks[t].pc = "idle"
    /\ \E w \in TaskWords :
          IF w \in Range(starred_words)
          THEN /\ tasks' = [tasks EXCEPT ![t] = [IdleTask EXCEPT !.pc = "remove", !.word = w]]
               /\ holder' = Hold(t)
               /\ UNCHANGED resp
          ELSE /\ resp' = [NoResp EXCEPT !.endpoint = "POST /unstarred", !.status = 200,
                                         !.word = w, !.hit = FALSE, !.list = starred_words]
               /\ UNCHANGED <<tasks, holder>>
    /\ UNCHANGED <<env, ARTEFACTS, phase, model_state, starred_words, load_log, rejected>>

\* remove_starred_word: starred_words.remove(word.word), which raises ValueError
\* when the word is not in the list, and the return
RemoveRemove(t) ==
    /\ holder \in {0, t}
    /\ phase \notin {"loaded", "model_published"}
    /\ tasks[t].pc = "remove"
    /\ IF tasks[t].word \in Range(starred_words)
       THEN /\ starred_words' = RemoveFirst(starred_words, tasks[t].word)
            /\ resp' = [NoResp EXCEPT !.endpoint = "POST /unstarred", !.status = 200,
                                      !.word = tasks[t].word, !.hit = TRUE,
                                      !.list = starred_words']
       ELSE /\ resp' = [NoResp EXCEPT !.endpoint = "POST /unstarred", !.status = 500,
                                      !.word = tasks[t].word, !.hit = TRUE,
                                      !.detail = "ValueError"]
            /\ UNCHANGED starred_words
    /\ tasks' = [tasks EXCEPT ![t] = IdleTask]
    /\ holder' = 0
    /\ UNCHANGED <<env, ARTEFACTS, phase, model_state, load_log, rejected>>

----------------------------------------------------------------------------
InitIn(envs) ==
    /\ env \in envs
    /\ ARTEFACTS = "artefacts"
    /\ phase = "init"
    /\ model_state = EmptyDict
    /\ starred_words = <<>>
    /\ load_log = [ran |-> FALSE, ok |-> FALSE, error |-> NoError, steps |-> <<>>]
    /\ resp = NoResp
    /\ rejected = FALSE
    /\ tasks = [t \in TaskIds |-> IdleTask]
    /\ holder = 0

Next ==
    \/ lifespan_startup
    \/ lifespan_shutdown
    \/ GenerateRequest
    \/ GetStarred
    \/ AddStarred
    \/ RemoveStarred
    \/ health
    \/ read_index

\* the service: startup, requests, shutdown
Init == InitIn(ServiceEnvironments)
Spec == Init /\ [][Next]_vars

\* the lifecycle alone, over every combination of artefact files
LoadInit == InitIn(Environments)
LoadNext == lifespan_startup \/ lifespan_shutdown
LoadSpec == LoadInit /\ [][LoadNext]_vars

\* startup, concurrent requests and shutdown, statement by statement
ConcNext ==
    \/ ConcLoad
    \/ ConcPublishModel
    \/ ConcPublishTokenizer
    \/ ConcClear
    \/ \E t \in TaskIds : GenCheck(t)
    \/ \E t \in TaskIds : GenFetch(t)
    \/ \E t \in TaskIds : AddCheck(t)
    \/ \E t \in TaskIds : AddAppend(t)
    \/ \E t \in TaskIds : RemoveCheck(t)
    \/ \E t \in TaskIds : RemoveRemove(t)
ConcSpec == Init /\ [][ConcNext]_vars
----------------------------------------------------------------------------
(* Vocabulary of the properties *)

\* the value a query parameter takes when the caller leaves it out
NumWordsOf(q_n) == IF q_n = Omitted THEN DEFAULT_NUM_WORDS ELSE q_n
TemperatureOf(q_t) == IF q_t = Omitted THEN DEFAULT_TEMPERATURE ELSE q_t

\* count >= 1 and temperature in [0, 10], as the public call is declared
InRange(r) ==
    /\ NumWordsOf(r.n) >= 1
    /\ TemperatureOf(r.t) >= 0
    /\ TemperatureOf(r.t) <= 10

IsGenerate(r) == r.endpoint = "GET /generate"
IsAdd(r) == r.endpoint = "POST /starred"
IsRemove(r) == r.endpoint = "POST /unstarred"
IsList(r) == r.endpoint = "GET /starred"
IsHealth(r) == r.endpoint = "GET /health"

NoDuplicates(s) == \A i, j \in 1..Len(s) : s[i] = s[j] => i = j

\* the steps of load in the order the specification fixes
LoadOrder ==
    <<"tokenizer_exists", "tokenizer_load", "config_exists", "config_parse",
      "config_check", "model_build", "weights_exists", "weights_load">>

\* whether a step of load, taken alone, fails on the files of environment e
StepFails(e, st) ==
    CASE st = "tokenizer_exists" -> e.tokenizer_json.state = "missing"
      [] st = "tokenizer_load"   -> e.tokenizer_json.state = "corrupt"
      [] st = "config_exists"    -> e.config_json.state = "missing"
      [] st = "config_parse"     -> e.config_json.state = "badjson"
      [] st = "config_check"     -> e.config_json.state \in {"scalar", "nokey"}
      [] st = "model_build"      -> e.config_json.state = "badarch"
      [] st = "weights_exists"   -> e.model_pth.state = "missing"
      [] st = "weights_load"     -> \/ e.model_pth.state = "corrupt"
                                    \/ /\ e.model_pth.state = "ok"
                                       /\ e.config_json.state = "ok"
                                       /\ e.model_pth.vocab # e.config_json.vocab

\* the kind of error each step reports
StepErrorType(e, st) ==
    CASE st \in {"tokenizer_exists", "config_exists", "weights_exists"} -> "FileNotFoundError"
      [] st \in {"tokenizer_load", "model_build", "weights_load"} -> "RuntimeError"
      [] st = "config_parse" -> "ValueError"
      [] st = "config_check" -> IF e.config_json.state = "scalar" THEN "TypeError" ELSE "ValueError"

FailingSteps(e) == {i \in 1..Len(LoadOrder) : StepFails(e, LoadOrder[i])}

----------------------------------------------------------------------------
(* C1: readiness gating before a load *)

\* C1 as stated: while the registry holds no model/tokenizer pair, every
\* GET /generate is answered 503 "Model not loaded" and nothing else.
C1_EveryCallUnavailable ==
    (phase = "running" /\ ~Loaded(model_state) /\ IsGenerate(resp))
        => (resp.status = 503 /\ resp.detail = "Model not loaded")

\* C1 amended: while the registry holds no model/tokenizer pair, a
\* GET /generate whose parameters are in range (count >= 1, temperature in
\* [0, 10], defaults included) is answered 503 "Model not loaded"; one whose
\* parameters are out of range is answered 422; neither returns words nor
\* invokes the sampler.
C1_ValidCallUnavailable ==
    (phase = "running" /\ ~Loaded(model_state) /\ IsGenerate(resp))
        => /\ resp.words = <<>>
           /\ resp.calls = <<>>
           /\ IF InRange(resp)
              THEN resp.status = 503 /\ resp.detail = "Model not loaded"
              ELSE resp.status = 422

C1_Witness ==
    /\ phase = "running" /\ load_log.ran /\ ~load_log.ok
    /\ IsGenerate(resp) /\ InRange(resp) /\ resp.status = 503

----------------------------------------------------------------------------
(* C2: readiness gating after a load *)

\* C2: from a successful load at startup until shutdown, whatever requests
\* have been served, a GET /generate is never answered 503: it is answered
\* 200, 422 or 500.
C2_NeverUnavailableAfterLoad ==
    (phase = "running" /\ load_log.ok /\ IsGenerate(resp))
        => resp.status \in {200, 422, 500}

C2_Witness ==
    /\ phase = "running" /\ load_log.ok
    /\ IsGenerate(resp) /\ resp.status = 200
    /\ Len(starred_words) = 2 /\ rejected

----------------------------------------------------------------------------
(* C3: load is atomic *)

\* C3: the registry holds both a model and a tokenizer or neither, in every
\* state; after a load that failed at any step it holds neither.
C3_AtomicLoad ==
    /\ DOMAIN model_state \in {{}, {"model", "tokenizer"}}
    /\ Loaded(model_state) =>
          /\ model_state["model"].type = "model"
          /\ model_state["tokenizer"].type = "tokenizer"
          /\ load_log.ok
    /\ (load_log.ran /\ ~load_log.ok) => model_state = EmptyDict

\* a load that got past the tokenizer and failed later, seen by a request
C3_Witness ==
    /\ phase = "running" /\ load_log.ran /\ ~load_log.ok
    /\ Len(load_log.steps) = Len(LoadOrder)
    /\ model_state = EmptyDict
    /\ IsGenerate(resp) /\ resp.status = 503

----------------------------------------------------------------------------
(* C4: count and length of the generated words *)

\* C4: a GET /generate answered 200 carries exactly n words, n >= 1 the
\* requested count, each of at most 20 characters, and they are the words
\* sample_n returns for that request.
C4_CountAndLength ==
    (IsGenerate(resp) /\ resp.status = 200)
        => /\ NumWordsOf(resp.n) >= 1
           /\ Len(resp.words) = NumWordsOf(resp.n)
           /\ \A i \in 1..Len(resp.words) : Len(resp.words[i]) <= 20
           /\ \E seed \in 0..MaxSeed :
                 resp.words = sample_n(NumWordsOf(resp.n), model_state["model"],
                                       model_state["tokenizer"], 20,
                                       TemperatureOf(resp.t), seed).words

\* the model never emits the end token: every word is cut at 20 characters
C4_Witness ==
    /\ IsGenerate(resp) /\ resp.status = 200
    /\ Len(resp.words) = 2
    /\ \A i \in 1..Len(resp.words) : Len(resp.words[i]) = 20

----------------------------------------------------------------------------
(* C5: no duplicates in the favorites list *)

\* C5: the favorites list never holds a word twice, and an add of a word
\* already in the list leaves the list as it was.
C5_NoDuplicates ==
    /\ [](NoDuplicates(starred_words) /\ NoDuplicates(resp.list))
    /\ [][(IsAdd(resp') /\ resp'.word \in Range(starred_words))
            => (starred_words' = starred_words /\ resp'.list = starred_words)]_vars

C5_Witness ==
    /\ IsAdd(resp) /\ resp.hit
    /\ Len(starred_words) = 3 /\ resp.word = starred_words[1]

----------------------------------------------------------------------------
(* C6: a removed word stays out *)

\* C6: the list a remove returns does not hold the removed word, the word
\* comes back into the list only by an add of that word, list() returns the
\* list as it is, and a remove of a word not in the list leaves it as it was.
C6_RemovedStaysOut ==
    /\ [](IsRemove(resp) => (resp.word \notin Range(resp.list) /\ resp.list = starred_words))
    /\ [][/\ \A w \in Words :
                (w \notin Range(starred_words) /\ w \in Range(starred_words'))
                    => (IsAdd(resp') /\ resp'.word = w)
          /\ IsList(resp') => (resp'.list = starred_words /\ starred_words' = starred_words)
          /\ (IsRemove(resp') /\ resp'.word \notin Range(starred_words))
                => starred_words' = starred_words]_vars

C6_Witness ==
    /\ IsRemove(resp) /\ resp.hit
    /\ Len(starred_words) = 2 /\ resp.word \notin Range(starred_words)

----------------------------------------------------------------------------
(* C7: insertion order *)

Without(s, w) == SelectSeq(s, LAMBDA x : x # w)

\* C7: an add of a word not in the list appends it at the end, a remove
\* deletes that word and keeps the others in their order, list() returns the
\* list, and nothing else changes the list.
C7_InsertionOrder ==
    [][/\ (IsAdd(resp') /\ resp'.word \notin Range(starred_words))
             => starred_words' = Append(starred_words, resp'.word)
       /\ IsRemove(resp') => starred_words' = Without(starred_words, resp'.word)
       /\ IsList(resp') => (resp'.list = starred_words /\ starred_words' = starred_words)
       /\ (IsAdd(resp') \/ IsRemove(resp') \/ IsList(resp')) => resp'.list = starred_words'
       /\ ~(IsAdd(resp') \/ IsRemove(resp')) => starred_words' = starred_words]_vars

C7_Witness ==
    /\ IsAdd(resp) /\ ~resp.hit
    /\ Len(starred_words) = 3 /\ starred_words[3] = resp.word

----------------------------------------------------------------------------
(* C8: out-of-range requests *)

\* C8: a GET /generate with count < 1 or temperature outside [0, 10] is
\* answered 422 without a sampler call, leaves the registry and the
\* favorites list as they were and the service running; GET /health is
\* answered 200 "ok" also after such a request.
C8_InvalidArgument ==
    /\ [][(IsGenerate(resp') /\ ~InRange(resp'))
            => /\ resp'.status = 422
               /\ resp'.calls = <<>> /\ resp'.words = <<>>
               /\ model_state' = model_state
               /\ starred_words' = starred_words
               /\ phase' = "running"
               /\ rejected']_vars
    /\ [](IsHealth(resp) => (resp.status = 200 /\ resp.detail = "ok"))

C8_Witness ==
    /\ rejected /\ Loaded(model_state)
    /\ IsHealth(resp) /\ resp.status = 200

----------------------------------------------------------------------------
(* C9: the order of the load steps *)

\* C9: load takes its steps in the fixed order and stops at the first one
\* that fails: the steps attempted are the order's prefix up to that step,
\* the error reported is that step's, and with no failing step all are taken
\* and the load succeeds.
C9_LoadOrder ==
    load_log.ran =>
        IF FailingSteps(env) = {}
        THEN load_log.ok /\ load_log.steps = LoadOrder /\ load_log.error = NoError
        ELSE LET k == Min(FailingSteps(env))
             IN  /\ ~load_log.ok
                 /\ load_log.steps = SubSeq(LoadOrder, 1, k)
                 /\ load_log.error.type = StepErrorType(env, LoadOrder[k])

\* tokenizer, configuration and weights all missing: the tokenizer is reported
C9_Witness ==
    /\ load_log.ran
    /\ env.tokenizer_json.state = "missing"
    /\ env.config_json.state = "missing"
    /\ env.model_pth.state = "missing"
    /\ load_log.error = [type |-> "FileNotFoundError", msg |-> "Tokenizer file not found"]
    /\ load_log.steps = <<"tokenizer_exists">>

----------------------------------------------------------------------------
(* C10: vocabulary sizes *)

\* C10: the registry is never Loaded with a model whose vocabulary size
\* differs from the tokenizer's.
C10_VocabularyValidated ==
    Loaded(model_state) => model_state["model"].vocab = model_state["tokenizer"].vocab

----------------------------------------------------------------------------
(* C11: load-time errors and the process *)

\* C11: whatever is missing or malformed among the artefacts (the artefact
\* directory, the tokenizer, the configuration, the weights), startup
\* completes: the process does not end in the startup error.
C11_StartupNeverCrashes ==
    env.frontend = "ok" => phase # "crashed"

----------------------------------------------------------------------------
(* C12: missing weights *)

WeightsNotFound == [type |-> "FileNotFoundError", msg |-> "Model weights not found"]

\* C12: with tokenizer and configuration present and valid and the weights
\* file missing, load fails with the weights-not-found error and the registry
\* stays NotLoaded; load reports that error in no other case, so it differs
\* from every error of the tokenizer and configuration steps.
C12_WeightsNotFound ==
    load_log.ran =>
        /\ (/\ env.tokenizer_json.state = "ok"
            /\ env.config_json.state = "ok"
            /\ env.model_pth.state = "missing")
              => (~load_log.ok /\ load_log.error = WeightsNotFound /\ model_state = EmptyDict)
        /\ load_log.error = WeightsNotFound
              => (/\ env.model_pth.state = "missing"
                  /\ load_log.steps = SubSeq(LoadOrder, 1, 7)
                  /\ \A i \in 1..6 : ~StepFails(env, LoadOrder[i]))

C12_Witness ==
    /\ phase = "running" /\ load_log.ran
    /\ env.tokenizer_json.state = "ok" /\ env.config_json.state = "ok"
    /\ env.model_pth.state = "missing"
    /\ load_log.error = WeightsNotFound
    /\ model_state = EmptyDict

----------------------------------------------------------------------------
(* C13: errors during generation *)

\* what sample_n does for the request of response r with the registry ms
SamplerOutcome(ms, r, seed) ==
    sample_n(NumWordsOf(r.n), ms["model"], ms["tokenizer"], 20, TemperatureOf(r.t), seed)

\* C13: on a loaded registry, a request in range whose sampler call raises is
\* answered 500 with the exception's message, and one answered 200 carries
\* the words of a sampler call that did not raise; it is never answered 503
\* or 422, and the step changes neither the registry, the favorites list nor
\* the running service.
C13_InternalGenerationError ==
    /\ []((phase = "running" /\ Loaded(model_state) /\ IsGenerate(resp) /\ InRange(resp))
            => \E seed \in 0..MaxSeed :
                  LET out == SamplerOutcome(model_state, resp, seed)
                  IN  IF out.ok
                      THEN resp.status = 200 /\ resp.words = out.words
                      ELSE /\ resp.status = 500
                           /\ resp.detail = out.error.msg
                           /\ resp.words = <<>>)
    /\ [][(IsGenerate(resp') /\ resp'.status = 500)
            => /\ phase' = "running"
               /\ model_state' = model_state
               /\ starred_words' = starred_words]_vars

C13_Witness ==
    /\ phase = "running" /\ Loaded(model_state)
    /\ IsGenerate(resp) /\ resp.status = 500
    /\ resp.detail = "token id outside the vocabulary"

----------------------------------------------------------------------------
(* C14: the transitions of the registry *)

\* C14: the registry changes only from NotLoaded to Loaded in the startup
\* step of a successful load and from Loaded to NotLoaded in the shutdown
\* step; no request step changes it, and after shutdown it is NotLoaded.
C14_RegistryTransitions ==
    /\ [][model_state' # model_state =>
            \/ /\ phase = "init" /\ phase' = "running"
               /\ model_state = EmptyDict /\ Loaded(model_state')
               /\ load_log'.ok /\ ~load_log.ran
            \/ /\ phase = "running" /\ phase' = "stopped"
               /\ Loaded(model_state) /\ model_state' = EmptyDict]_vars
    /\ [](phase = "stopped" => model_state = EmptyDict)
    /\ [](phase \in {"init", "crashed"} => model_state = EmptyDict)

C14_Witness ==
    /\ phase = "stopped" /\ load_log.ok
    /\ model_state = EmptyDict
    /\ starred_words # <<>>

----------------------------------------------------------------------------
(* C16: generation terminates within max_length steps per word *)

\* C16: a generation call that reaches the sampler is made with max_length
\* 20 and takes at most 20 model steps per word, 20 * n in all, and a word
\* returned has at most 20 characters, also when the model never produces the
\* end token.
C16_BoundedSteps ==
    (IsGenerate(resp) /\ resp.calls # <<>>)
        => /\ Len(resp.calls) = 1
           /\ resp.calls[1].max_length = 20
           /\ resp.steps <= 20 * NumWordsOf(resp.n)
           /\ \A i \in 1..Len(resp.words) : Len(resp.words[i]) <= 20

\* the model that never produces the end token, ten words: 200 steps
C16_Witness ==
    /\ IsGenerate(resp) /\ resp.status = 200
    /\ model_state["model"].kind = "stuck"
    /\ resp.n = Omitted
    /\ resp.steps = 200

----------------------------------------------------------------------------
(* C17: temperature 0 *)

\* the outcome of generating one word at temperature 0 with the registry ms
ZeroOutcome(ms) == sample_n(1, ms["model"], ms["tokenizer"], 20, 0, 0)

\* C17: with the same loaded model and tokenizer every generation call at
\* temperature 0 has the same outcome whatever its randomness and whatever
\* was served before: each word returned, at every position, is the one
\* word the argmax path yields.
C17_DeterministicAtZero ==
    (phase = "running" /\ Loaded(model_state) /\ IsGenerate(resp) /\ InRange(resp) /\ resp.t = 0)
        => IF ZeroOutcome(model_state).ok
           THEN /\ resp.status = 200
                /\ \A i \in 1..Len(resp.words) :
                      resp.words[i] = ZeroOutcome(model_state).words[1]
           ELSE resp.status = 500

C17_Witness ==
    /\ phase = "running" /\ Loaded(model_state)
    /\ model_state["model"].kind = "free"
    /\ IsGenerate(resp) /\ resp.t = 0 /\ resp.status = 200
    /\ Len(resp.words) = 2 /\ resp.words[2] = <<"a", "a">>
    /\ starred_words # <<>>

----------------------------------------------------------------------------
(* C18: the sampler call *)

\* C18: a request in range on a loaded registry invokes the sampler exactly
\* once, with n the requested count (10 when omitted), temperature the
\* requested temperature (1.0 when omitted) and max_length 20; a request out
\* of range or on an empty registry does not invoke it.
C18_SamplerCalledOnce ==
    (phase = "running" /\ IsGenerate(resp))
        => IF Loaded(model_state) /\ InRange(resp)
           THEN resp.calls = <<[n |-> IF resp.n = Omitted THEN 10 ELSE resp.n,
                                temperature |-> IF resp.t = Omitted THEN 1 ELSE resp.t,
                                max_length |-> 20]>>
           ELSE resp.calls = <<>>

C18_Witness ==
    /\ phase = "running" /\ Loaded(model_state)
    /\ IsGenerate(resp) /\ resp.n = Omitted /\ resp.t = Omitted
    /\ resp.calls = <<[n |-> 10, temperature |-> 1, max_length |-> 20]>>
    /\ resp.status = 200

----------------------------------------------------------------------------
(* C19: generation and list() change nothing *)

\* C19: a GET /generate step, answered 200, 422, 500 or 503, and a
\* GET /starred step leave the favorites list and the registry as they were.
C19_GenerateFrame ==
    [][(IsGenerate(resp') \/ IsList(resp'))
          => /\ resp'.status \in {200, 422, 500, 503}
             /\ starred_words' = starred_words
             /\ model_state' = model_state]_vars

C19_Witness ==
    /\ IsGenerate(resp) /\ resp.status = 500
    /\ Loaded(model_state)
    /\ Len(starred_words) = 3

----------------------------------------------------------------------------
(* C20: favorites and health do not depend on the registry *)

\* C20: list, add, remove and health are answered 200, never 503, with a
\* result that is a function of the favorites list and the word alone, hence
\* the same with the registry NotLoaded as Loaded; startup (load) and
\* shutdown (clear) leave the favorites list as it was.
C20_FavoritesIndependent ==
    /\ []((IsAdd(resp) \/ IsRemove(resp) \/ IsList(resp) \/ IsHealth(resp))
            => resp.status = 200)
    /\ [][/\ IsAdd(resp') =>
                resp'.list = IF resp'.word \in Range(starred_words) THEN starred_words
                             ELSE Append(starred_words, resp'.word)
          /\ IsRemove(resp') => resp'.list = Without(starred_words, resp'.word)
          /\ IsList(resp') => resp'.list = starred_words
          /\ IsHealth(resp') => resp'.detail = "ok"
          /\ phase' # phase => starred_words' = starred_words]_vars

C20_Witness ==
    /\ phase = "stopped" /\ ~load_log.ok
    /\ Len(starred_words) = 2

----------------------------------------------------------------------------
(* C15: load, clear and the requests' reads of the registry *)

LoadInProgress == phase \in {"loaded", "model_published"}

\* C15: under every interleaving of startup, concurrent generation requests
\* and shutdown, no request is between its statements while load is in
\* progress or when the registry is written, and a request that has passed
\* the readiness check finds, when it fetches, the complete pair the check
\* saw.
C15_RegistryExclusion ==
    /\ [](\A t \in TaskIds :
            tasks[t].pc = "fetch"
                => /\ Loaded(model_state)
                   /\ model_state = tasks[t].seen
                   /\ ~LoadInProgress)
    /\ [](LoadInProgress => (holder = 0 /\ \A t \in TaskIds : tasks[t].pc = "idle"))
    /\ [](~LoadInProgress => DOMAIN model_state \in {{}, {"model", "tokenizer"}})
    /\ []((IsGenerate(resp) /\ resp.status \in {200, 500}) => Len(resp.calls) = 1)
    /\ [][model_state' # model_state
            => (tasks' = tasks /\ \A t \in TaskIds : tasks[t].pc = "idle")]_vars

\* a request between its readiness check and its fetch, after another was served
C15_Witness ==
    /\ \E t \in TaskIds : tasks[t].pc = "fetch" /\ holder = t /\ Loaded(tasks[t].seen)
    /\ IsGenerate(resp) /\ resp.status = 200

----------------------------------------------------------------------------
(* C21: concurrent add and remove requests *)

BetweenCheckAndMutation(t) == tasks[t].pc \in {"append", "remove"}

\* C21: under every interleaving of concurrent add and remove requests, the
\* step that follows a request's membership check is that request's own list
\* mutation, with the check's result still true; so the list never holds a
\* word twice and no add or remove request fails.
C21_CheckThenMutate ==
    /\ [][\A t \in TaskIds :
            BetweenCheckAndMutation(t)
                => (tasks'[t].pc = "idle" /\ starred_words' # starred_words)]_vars
    /\ [](\A t \in TaskIds :
            /\ tasks[t].pc = "append" => tasks[t].word \notin Range(starred_words)
            /\ tasks[t].pc = "remove" => tasks[t].word \in Range(starred_words))
    /\ [](NoDuplicates(starred_words))
    /\ []((IsAdd(resp) \/ IsRemove(resp)) => resp.status = 200)

\* a request about to remove a word that two add requests asked for, the
\* second of which found it present; the list holds the word once
C21_Witness ==
    /\ IsAdd(resp) /\ resp.hit /\ resp.word = "nebula"
    /\ \E t \in TaskIds : tasks[t].pc = "remove" /\ tasks[t].word = "nebula" /\ holder = t
    /\ Cardinality({i \in 1..Len(starred_words) : starred_words[i] = "nebula"}) = 1
    /\ Len(starred_words) = 2

====
